---- MODULE Spec2Model ----
(***************************************************************************)
(* A model of the Discord question-answering bots of this repository.      *)
(* The repository holds several revisions of one bot (one file each); the  *)
(* variable `bot` says which revision is running.  A revision's retrieval  *)
(* function is an operator Search_<file>, its command handlers are the     *)
(* actions below, cut at their `await` points.                             *)
(*                                                                         *)
(* Texts are sequences of words.  Each external call (Document Store,      *)
(* Embedding Service, Completion Service) either returns or raises; the    *)
(* set `f` of fault points says which calls of one invocation raise.       *)
(***************************************************************************)
EXTENDS Integers, Sequences, FiniteSets, TLC

VARIABLES
    bot,        \* the revision (source file) that is running
    docs,       \* the `documents` collection, in natural order
    vindex,     \* TRUE iff the Atlas index 'vector_index' exists
    qa_history, \* the `qa_history` collection, in insertion order
    cmd,        \* cmd[i]: the command of interaction i
    question,   \* question[i]: the question argument of an ask
    pc,         \* pc[i]: where the handler coroutine of interaction i stands
    acked,      \* acked[i]: interaction.response.is_done()
    sent,       \* sent[i]: the messages delivered for interaction i, in order
    calls,      \* calls[i]: the external calls the handler issued, in order
    found,      \* found[i]: what the retrieval of interaction i did
    compl,      \* compl[i]: outcome of the completion call of interaction i
    pending,    \* pending[i]: messages the handler still has to send
    insert_failed, \* insert_failed[i]: an insert into qa_history raised
    answer,     \* answer[i]: len(answer) of the completion of interaction i
    stats_msg,  \* what the last stats command reported
    is_fully_ready, \* QABot.is_fully_ready
    store_up,   \* TRUE iff the Document Store answers a ping now
    health,     \* the health_check request in progress and its response
    phase,      \* how far the start of the process has come
    env,        \* the environment variables that are set
    connected,  \* DatabaseManager.connected
    ingest,     \* the ingestion run: where it stands and the set it replaces
    secrets,    \* secrets[v]: the value of the environment variable v
    dotenv,     \* the variables the file .env sets, or that there is no file
    logged,     \* the lines written to the log, in order
    manager,    \* the handles of the DatabaseManager: client, db, qa_collection
    co          \* co[t]: where task t stands in ensure_connection and its caller

vars == <<bot, docs, vindex, qa_history, cmd, question, pc, acked, sent,
          calls, found, compl, pending, insert_failed, answer,
          stats_msg, is_fully_ready, store_up, health, phase, env, connected,
          ingest, secrets, dotenv, logged, manager, co>>

\* the environment of the process, what it has logged, and the
\* DatabaseManager with the tasks that use it
ext == <<ingest, secrets, dotenv, logged, manager, co>>

\* the state outside the command handlers
aux == <<stats_msg, is_fully_ready, store_up, health, phase, env, connected, ext>>

----------------------------------------------------------------------------
(* Bounds of the model *)

MaxInvocations == 2
MaxFaults == 2

Interactions == 1..MaxInvocations

----------------------------------------------------------------------------
(* Sequence helpers *)

Take(s, n) == IF Len(s) <= n THEN s ELSE SubSeq(s, 1, n)

Range(s) == {s[j] : j \in 1..Len(s)}

\* the ids of a sequence of chunks, in order
Ids(s) == [j \in 1..Len(s) |-> s[j].id]

RECURSIVE Dedup(_)
\* list(dict.fromkeys(s)): first occurrences, order kept
Dedup(s) ==
    IF s = <<>> THEN <<>>
    ELSE LET init == Dedup(SubSeq(s, 1, Len(s) - 1))
             last == s[Len(s)]
         IN IF last \in Range(init) THEN init ELSE Append(init, last)

----------------------------------------------------------------------------
(* Words, queries and chunks *)

\* str.lower() on the words of the model
Lower(w) ==
    CASE w = "What" -> "what"
      [] w = "MMBM" -> "mmbm"
      [] w = "MMBM?" -> "mmbm?"
      [] w = "Definition" -> "definition"
      [] OTHER -> w

LowerAll(q) == [j \in 1..Len(q) |-> Lower(q[j])]

\* a lower-cased word that ends in the regex metacharacter '?'
HasMeta(w) == w = "mmbm?"

\* the word without trailing punctuation
Stem(w) == IF w = "mmbm?" THEN "mmbm" ELSE w

\* pairs <<text word, proper substring>> among the lower-cased words
Substrings == {<<"bullish", "is">>, <<"mmbm?", "mmbm">>}

Contains(t, p) == t = p \/ <<t, p>> \in Substrings

\* One word of a regex term against one word of a text, both under (?i).
\* escaped: the term went through re.escape; anchored: the term stands
\* between \b ... \b.  An unescaped trailing '?' makes the last letter
\* optional; an escaped one needs a literal '?' in the text, and \?\b needs
\* a word character right after it, which no text of the model has.
WordMatch(t, p, escaped, anchored) ==
    LET lt == Lower(t)
        lp == Lower(p)
    IN IF HasMeta(lp)
       THEN IF escaped THEN (~anchored /\ Contains(lt, lp))
            ELSE Contains(lt, Stem(lp))
       ELSE IF anchored THEN Stem(lt) = lp ELSE Contains(lt, lp)

\* pairs <<text word, proper prefix>> among the lower-cased words
Prefixes == {<<"mmbm?", "mmbm">>}

StartsWith(t, p) == t = p \/ <<t, p>> \in Prefixes

\* The last word of a term of several words: the text word starts with it.
LastWordMatch(t, p, escaped, anchored) ==
    LET lt == Lower(t)
        lp == Lower(p)
    IN IF anchored THEN WordMatch(t, p, escaped, TRUE)
       ELSE IF HasMeta(lp) /\ ~escaped THEN StartsWith(lt, Stem(lp))
       ELSE StartsWith(lt, lp)

\* A term (words joined by one blank) occurs in the text of chunk c.
TermInText(term, c, escaped, anchored) ==
    IF Len(term) = 0 THEN TRUE
    ELSE IF Len(term) = 1
    THEN \E j \in 1..Len(c.words) : WordMatch(c.words[j], term[1], escaped, anchored)
    ELSE \E o \in 0..(Len(c.words) - Len(term)) :
            \A m \in 1..Len(term) :
                IF m = Len(term)
                THEN LastWordMatch(c.words[o + m], term[m], escaped, anchored)
                ELSE Lower(c.words[o + m]) = Lower(term[m])

\* "MMBM is bullish order flow": 26 characters, stored without embedding
ChunkShort == [id |-> 1, words |-> <<"MMBM", "is", "bullish", "order", "flow">>,
               len |-> 26, emb |-> FALSE, marker |-> FALSE]
\* a paragraph of 60 characters that defines MMBM, stored with its embedding
ChunkLong == [id |-> 2, words |-> <<"Definition", "MMBM", "is", "order", "flow">>,
              len |-> 60, emb |-> TRUE, marker |-> TRUE]
\* a paragraph of 70 characters on another topic, stored with its embedding
ChunkOther == [id |-> 3, words |-> <<"order", "block">>,
               len |-> 70, emb |-> TRUE, marker |-> FALSE]
\* further copies of the long paragraph, to fill a collection beyond k
ChunkCopy(n) == [ChunkLong EXCEPT !.id = n]

Stores ==
    { <<>>,
      <<ChunkShort>>,
      <<ChunkLong>>,
      <<ChunkShort, ChunkLong, ChunkOther>>,
      <<ChunkLong, ChunkCopy(4), ChunkCopy(5), ChunkCopy(6), ChunkCopy(7),
        ChunkCopy(8)>> }

Questions == { <<"What", "is", "MMBM?">>, <<"MMBM">>, <<"anything">> }

\* query.lower(), each word, each adjacent pair
SearchTerms(q) ==
    LET lq == LowerAll(q)
    IN {lq} \cup {<<lq[j]>> : j \in 1..Len(lq)}
            \cup {<<lq[j], lq[j + 1]>> : j \in 1..(Len(lq) - 1)}

----------------------------------------------------------------------------
(* Document Store queries *)

\* find({"$or": [{"text": {"$regex": "(?i).*term.*"}} ...]}).limit(k)
FindRegex(terms, escaped, k) ==
    LET Hit(c) == \E t \in terms : Len(t) > 0 /\ TermInText(t, c, escaped, FALSE)
    IN Take(Ids(SelectSeq(docs, Hit)), k)

\* aggregate([{$search: {index: 'vector_index', knnBeta: {k: k}}}]): the k
\* nearest chunks among those that carry an embedding; nothing without index
VectorSearch(k) ==
    LET Embedded(c) == c.emb
    IN IF vindex THEN Take(Ids(SelectSeq(docs, Embedded)), k) ELSE <<>>

NoCalls == <<>>

\* a tier query that returned n documents, and one that raised
Ok(tier, n) == [tier |-> tier, ok |-> TRUE, n |-> n]

Err(tier) == [tier |-> tier, ok |-> FALSE, n |-> 0]

\* the result of one retrieval: the texts returned (by chunk id), whether the
\* call raised, and the tier queries issued with the size of each result
Result(texts, raised, log) == [texts |-> texts, raised |-> raised, log |-> log]

----------------------------------------------------------------------------
(* Retrieval, one operator per revision.  q: the query; f: the fault points
   of this invocation. *)

K3 == 3
K5 == 5

\* ragapp.py: vector search only, no exception handler
Search_ragapp(q, f) ==
    IF "embed" \in f THEN Result(<<>>, TRUE, <<Err("embed")>>)
    ELSE IF "vector" \in f
    THEN Result(<<>>, TRUE, <<Ok("embed", 1), Err("vector")>>)
    ELSE LET r == VectorSearch(K3)
         IN Result(r, FALSE, <<Ok("embed", 1), Ok("vector", Len(r))>>)

\* adv_discord_bot1.py: the module-level function takes (self, query, k) and
\* ask calls it with the question alone, so the call raises TypeError before
\* any tier is tried
Search_adv_discord_bot1(q, f) == Result(<<>>, TRUE, NoCalls)

\* adv_dis.py search_documents: regex on the whole query, then on each word
Search_adv_dis(q, f) ==
    IF "text" \in f THEN Result(<<>>, FALSE, <<Err("text")>>)
    ELSE LET r1 == FindRegex({q}, FALSE, K3)
         IN IF r1 # <<>> THEN Result(r1, FALSE, <<Ok("text", Len(r1))>>)
            ELSE IF Len(q) = 0 THEN Result(<<>>, FALSE, <<Ok("text", 0)>>)
            ELSE IF "text2" \in f
            THEN Result(<<>>, FALSE, <<Ok("text", 0), Err("text2")>>)
            ELSE LET r2 == FindRegex({<<q[j]>> : j \in 1..Len(q)}, FALSE, K3)
                 IN Result(r2, FALSE, <<Ok("text", 0), Ok("text2", Len(r2))>>)

\* the vector tier when every error goes to the function's one handler
VectorTierUnguarded(k, f, before) ==
    IF "embed" \in f THEN Result(<<>>, FALSE, before \o <<Err("embed")>>)
    ELSE IF "vector" \in f
    THEN Result(<<>>, FALSE, before \o <<Ok("embed", 1), Err("vector")>>)
    ELSE LET r == VectorSearch(k)
         IN Result(r, FALSE, before \o <<Ok("embed", 1), Ok("vector", Len(r))>>)

\* adv_dis1.py DatabaseManager.search_similar_chunks
Search_adv_dis1(q, f) ==
    IF "text" \in f THEN Result(<<>>, FALSE, <<Err("text")>>)
    ELSE LET r1 == FindRegex({q}, FALSE, K3)
         IN IF r1 # <<>> THEN Result(r1, FALSE, <<Ok("text", Len(r1))>>)
            ELSE VectorTierUnguarded(K3, f, <<Ok("text", 0)>>)

\* advanced_discord_bot.py search_similar_chunks
Search_advanced_discord_bot(q, f) ==
    IF "text" \in f THEN Result(<<>>, FALSE, <<Err("text")>>)
    ELSE LET r1 == FindRegex(SearchTerms(q), FALSE, K5)
         IN IF r1 # <<>> THEN Result(r1, FALSE, <<Ok("text", Len(r1))>>)
            ELSE VectorTierUnguarded(K5, f, <<Ok("text", 0)>>)

\* adv_discord_bot.py search_similar_chunks: the vector tier has its own
\* handler; with no result the collection is counted and sampled
Search_adv_discord_bot(q, f) ==
    IF "text" \in f THEN Result(<<>>, FALSE, <<Err("text")>>)
    ELSE LET r1 == FindRegex(SearchTerms(q), FALSE, K5)
         IN IF r1 # <<>> THEN Result(r1, FALSE, <<Ok("text", Len(r1))>>)
            ELSE LET log2 == IF "embed" \in f THEN <<Ok("text", 0), Err("embed")>>
                             ELSE IF "vector" \in f
                             THEN <<Ok("text", 0), Ok("embed", 1), Err("vector")>>
                             ELSE <<Ok("text", 0), Ok("embed", 1),
                                    Ok("vector", Len(VectorSearch(K5)))>>
                     r2 == IF "embed" \in f \/ "vector" \in f THEN <<>> ELSE VectorSearch(K5)
                 IN IF r2 # <<>> THEN Result(r2, FALSE, log2)
                    ELSE IF "diag" \in f
                    THEN Result(<<>>, FALSE, Append(log2, Err("diag")))
                    ELSE Result(<<>>, FALSE, Append(log2, Ok("diag", Len(docs))))

\* words the store's English full-text index drops
MongoStopWords == {"what", "is"}

\* find({"$text": {"$search": "\"phrase\""}}).limit(k): the phrase's index
\* tokens and the phrase itself occur in the text
TextPhrase(q, k) ==
    LET lq == LowerAll(q)
        tokens == {Stem(lq[j]) : j \in 1..Len(lq)} \ MongoStopWords
        Hit(c) == /\ \A t \in tokens : \E j \in 1..Len(c.words) : Stem(Lower(c.words[j])) = t
                  /\ TermInText(lq, c, TRUE, FALSE)
    IN Take(Ids(SelectSeq(docs, Hit)), k)

\* find({"$text": {"$search": "t1 t2 ..."}}).limit(k): some index token of
\* the search string is a token of the text
TextTerms(terms, k) ==
    LET tokens == UNION {{Stem(t[j]) : j \in 1..Len(t)} : t \in terms} \ MongoStopWords
        Hit(c) == \E j \in 1..Len(c.words) : Stem(Lower(c.words[j])) \in tokens
    IN Take(Ids(SelectSeq(docs, Hit)), k)

\* discord_bot.py DocumentSearch.search: phrase, full text, vector (own
\* handler), regex on the unescaped terms
Search_discord_bot(q, f) ==
    IF "text" \in f THEN Result(<<>>, FALSE, <<Err("text")>>)
    ELSE LET r1 == TextPhrase(q, K5)
         IN IF r1 # <<>> THEN Result(r1, FALSE, <<Ok("text", Len(r1))>>)
            ELSE IF "text2" \in f
            THEN Result(<<>>, FALSE, <<Ok("text", 0), Err("text2")>>)
            ELSE LET r2 == TextTerms(SearchTerms(q), K5)
                     log2 == <<Ok("text", 0), Ok("text2", Len(r2))>>
                 IN IF r2 # <<>> THEN Result(r2, FALSE, log2)
                    ELSE LET log3 == IF "embed" \in f THEN Append(log2, Err("embed"))
                                     ELSE IF "vector" \in f
                                     THEN log2 \o <<Ok("embed", 1), Err("vector")>>
                                     ELSE log2 \o <<Ok("embed", 1),
                                                    Ok("vector", Len(VectorSearch(K5)))>>
                             r3 == IF "embed" \in f \/ "vector" \in f THEN <<>>
                                   ELSE VectorSearch(K5)
                         IN IF r3 # <<>> THEN Result(r3, FALSE, log3)
                            ELSE IF "fallback" \in f
                            THEN Result(<<>>, FALSE, Append(log3, Err("fallback")))
                            ELSE LET r4 == FindRegex(SearchTerms(q), FALSE, K5)
                                 IN Result(r4, FALSE, Append(log3, Ok("fallback", Len(r4))))

\* the question words discord_bot1.py removes
stop_words == {"what", "is", "are", "how", "does", "where", "when", "why", "which"}

\* str.upper() on the words of the model
Upper(w) ==
    CASE w = "mmbm" -> "MMBM"
      [] w = "mmbm?" -> "MMBM?"
      [] w = "anything" -> "ANYTHING"
      [] OTHER -> w

\* extract_trading_context keeps a section only if it is longer than this
MinContextLen == 50

\* discord_bot1.py: core_query, query_clean, the core terms, their upper
\* case, adjacent pairs of core terms; the term "" is skipped
SearchTerms1(q) ==
    LET lq == LowerAll(q)
        core == SelectSeq(lq, LAMBDA w : w \notin stop_words)
    IN ({core, lq} \cup {<<core[j]>> : j \in 1..Len(core)}
                   \cup {<<Upper(core[j])>> : j \in 1..Len(core)}
                   \cup {<<core[j], core[j + 1]>> : j \in 1..(Len(core) - 1)})
       \ {<<>>}

\* find with the seven patterns per escaped term: the term between word
\* boundaries, or the term next to a "Definition:"/"FAQ"/"Question:" marker
FindPatterns1(terms, k) ==
    LET Hit(c) == \E t \in terms : \/ TermInText(t, c, TRUE, TRUE)
                                   \/ (c.marker /\ TermInText(t, c, TRUE, FALSE))
    IN Take(SelectSeq(docs, Hit), k)

\* extract_trading_context over the found documents (one paragraph each):
\* the text of each document in which a term stands between word
\* boundaries and whose length exceeds MinContextLen
Sections1(found_docs, terms) ==
    LET Keep(c) == /\ \E t \in terms : TermInText(t, c, TRUE, TRUE)
                   /\ c.len > MinContextLen
    IN Ids(SelectSeq(found_docs, Keep))

\* discord_bot1.py DatabaseManager.search_similar_chunks: the vector tier
\* runs whenever the text tier gave fewer than 2 sections, and its sections
\* are appended to those of the text tier
Search_discord_bot1(q, f) ==
    LET terms == SearchTerms1(q)
    IN IF "text" \in f THEN Result(<<>>, FALSE, <<Err("text")>>)
       ELSE LET p1 == Dedup(Sections1(FindPatterns1(terms, K5), terms))
                log1 == <<Ok("text", Len(p1))>>
            IN IF Len(p1) >= 2 THEN Result(Take(p1, K5), FALSE, log1)
               ELSE IF "embed" \in f
               THEN Result(Take(p1, K5), FALSE, Append(log1, Err("embed")))
               ELSE IF "vector" \in f
               THEN Result(Take(p1, K5), FALSE, log1 \o <<Ok("embed", 1), Err("vector")>>)
               ELSE LET vdocs == SelectSeq(docs, LAMBDA c : c.id \in Range(VectorSearch(K5)))
                        p2 == Sections1(vdocs, terms)
                    IN Result(Take(Dedup(p1 \o p2), K5), FALSE,
                              log1 \o <<Ok("embed", 1), Ok("vector", Len(p2))>>)

----------------------------------------------------------------------------
(* What a handler does between the acknowledgment and its first send *)

\* the fault points of one invocation: the calls that may raise
FaultPoints == {"text", "text2", "embed", "vector", "fallback", "diag",
                "completion", "insert", "insert2", "ping"}

FaultSets == {f \in SUBSET FaultPoints : Cardinality(f) <= MaxFaults}

\* lengths of the answers the Completion Service returns
AnswerLens == {100, 4000}

\* the network calls of a retrieval, in order
NetCalls(log) == [j \in 1..Len(log) |-> IF log[j].tier = "embed" THEN "embed" ELSE "store"]

\* a message: its kind, whether it carries str(e) of an exception, and for a
\* part of an answer the slice answer[lo:hi]
Msg(kind, exc) == [kind |-> kind, exc |-> exc, lo |-> 0, hi |-> 0]

Canned == Msg("canned", FALSE)

Generic == Msg("generic", FALSE)

ErrorMsg == Msg("error", TRUE)

Min(a, b) == IF a < b THEN a ELSE b

\* answer[(j-1)*m : j*m] of an answer of n characters
PartAt(j, n, m) ==
    [kind |-> "answer", exc |-> FALSE, lo |-> (j - 1) * m, hi |-> Min(j * m, n)]

\* Parts over range(0, len(answer) - len(answer) % m, m): the remainder of
\* the answer is dropped
Parts_truncated(n, t, m) ==
    IF n > t THEN [j \in 1..(n \div m) |-> PartAt(j, n, m)]
    ELSE <<[kind |-> "answer", exc |-> FALSE, lo |-> 0, hi |-> n]>>

\* Parts with the test len(answer) > t + m: an answer just over the
\* threshold is sent whole
Parts_unsplit(n, t, m) ==
    IF n > t + m THEN [j \in 1..((n + m - 1) \div m) |-> PartAt(j, n, m)]
    ELSE <<[kind |-> "answer", exc |-> FALSE, lo |-> 0, hi |-> n]>>

\* Parts over range(0, len(answer) + 1, m): an empty last part when m
\* divides len(answer)
Parts_extra(n, t, m) ==
    IF n > t THEN [j \in 1..((n \div m) + 1) |-> PartAt(j, n, m)]
    ELSE <<[kind |-> "answer", exc |-> FALSE, lo |-> 0, hi |-> n]>>

\* [answer[i:i+m] for i in range(0, len(answer), m)] when len(answer) > t,
\* else the answer alone
Parts(n, t, m) ==
    IF n > t
    THEN [j \in 1..((n + m - 1) \div m) |->
            [kind |-> "answer", exc |-> FALSE, lo |-> (j - 1) * m, hi |-> Min(j * m, n)]]
    ELSE <<[kind |-> "answer", exc |-> FALSE, lo |-> 0, hi |-> n]>>

\* what the synchronous part of a handler did: the retrieval, the outcome of
\* the completion call ("none" when it was not called), the network calls in
\* order, the `success` fields of the history records inserted, and the
\* messages it goes on to send
Out(r, c, net, hist, msgs) ==
    [found |-> r, compl |-> c, calls |-> net, hist |-> hist, msgs |-> msgs,
     insert_failed |-> FALSE]

\* the outcome o, reached through an insert into qa_history that raised
InsertFailed(o) == [o EXCEPT !.insert_failed = TRUE]

NoSearch == Result(<<>>, FALSE, NoCalls)

\* ragapp.py ask: no check for an empty retrieval, no history
Ask_ragapp(q, f, n) ==
    LET r == Search_ragapp(q, f)
        net == NetCalls(r.log)
    IN IF r.raised THEN Out(r, "none", net, <<>>, <<ErrorMsg>>)
       ELSE IF "completion" \in f
       THEN Out(r, "fail", Append(net, "completion"), <<>>, <<ErrorMsg>>)
       ELSE Out(r, "ok", Append(net, "completion"), <<>>, Parts(n, 2000, 1990))

\* adv_discord_bot1.py ask: the handler answers an exception only if the
\* interaction is not yet acknowledged, and it always is
Ask_adv_discord_bot1(q, f, n) ==
    LET r == Search_adv_discord_bot1(q, f)
    IN IF r.raised THEN Out(r, "none", <<>>, <<>>, <<>>)
       ELSE IF r.texts = <<>> THEN Out(r, "none", NetCalls(r.log), <<>>, <<Canned>>)
       ELSE IF "completion" \in f
       THEN Out(r, "fail", Append(NetCalls(r.log), "completion"), <<>>, <<>>)
       ELSE Out(r, "ok", Append(NetCalls(r.log), "completion"), <<>>, Parts(n, 1900, 1900))

\* adv_dis.py ask
Ask_adv_dis(q, f, n) ==
    LET r == Search_adv_dis(q, f)
        net == NetCalls(r.log)
    IN IF r.texts = <<>> THEN Out(r, "none", net, <<>>, <<Canned>>)
       ELSE IF "completion" \in f
       THEN Out(r, "fail", Append(net, "completion"), <<>>, <<Generic>>)
       ELSE IF "insert" \in f
       THEN InsertFailed(Out(r, "ok", net \o <<"completion", "store">>, <<>>, <<Generic>>))
       ELSE Out(r, "ok", net \o <<"completion", "store">>, <<"true">>, Parts(n, 1900, 1900))

\* adv_dis1.py ask
Ask_adv_dis1(q, f, n) ==
    LET r == Search_adv_dis1(q, f)
        net == NetCalls(r.log)
    IN IF r.texts = <<>> THEN Out(r, "none", net, <<>>, <<Canned>>)
       ELSE IF "completion" \in f
       THEN Out(r, "fail", Append(net, "completion"), <<>>, <<>>)
       ELSE Out(r, "ok", Append(net, "completion"), <<>>, Parts(n, 1900, 1900))

\* Except_advanced_discord_bot with the success flag of the failure record
\* set to True
Except_advanced_discord_bot_flag(r, c, net, f) ==
    IF "insert2" \in f THEN InsertFailed(Out(r, c, Append(net, "store"), <<>>, <<>>))
    ELSE Out(r, c, Append(net, "store"), <<"true">>, <<ErrorMsg>>)

\* advanced_discord_bot.py ask, from an exception on: the handler stores a
\* success=False record and sends the error text; store_qa_interaction has
\* no handler of its own, so a second failed insert leaves the handler
Except_advanced_discord_bot(r, c, net, f) ==
    IF "insert2" \in f THEN InsertFailed(Out(r, c, Append(net, "store"), <<>>, <<>>))
    ELSE Out(r, c, Append(net, "store"), <<"false">>, <<ErrorMsg>>)

\* advanced_discord_bot.py ask
Ask_advanced_discord_bot(q, f, n) ==
    LET r == Search_advanced_discord_bot(q, f)
        net == NetCalls(r.log)
    IN IF r.texts = <<>>
       THEN IF "insert" \in f
            THEN InsertFailed(Except_advanced_discord_bot(r, "none", Append(net, "store"), f))
            ELSE Out(r, "none", Append(net, "store"), <<"false">>, <<Canned>>)
       ELSE IF "completion" \in f
       THEN Except_advanced_discord_bot(r, "fail", Append(net, "completion"), f)
       ELSE IF "insert" \in f
       THEN InsertFailed(Except_advanced_discord_bot(r, "ok", net \o <<"completion", "store">>, f))
       ELSE Out(r, "ok", net \o <<"completion", "store">>, <<"true">>, Parts(n, 2000, 1990))

\* adv_discord_bot.py and discord_bot1.py ask, after the retrieval r
AskLogged(r, f, n) ==
    LET net == NetCalls(r.log)
    IN IF r.texts = <<>>
       THEN IF "insert" \in f
            THEN InsertFailed(Out(r, "none", Append(net, "store"), <<>>, <<ErrorMsg>>))
            ELSE Out(r, "none", Append(net, "store"), <<"false">>, <<Canned>>)
       ELSE IF "completion" \in f
       THEN Out(r, "fail", Append(net, "completion"), <<>>, <<ErrorMsg>>)
       ELSE IF "insert" \in f
       THEN InsertFailed(Out(r, "ok", net \o <<"completion", "store">>, <<>>, <<ErrorMsg>>))
       ELSE Out(r, "ok", net \o <<"completion", "store">>, <<"true">>, Parts(n, 2000, 1990))

\* adv_discord_bot.py ask
Ask_adv_discord_bot(q, f, n) == AskLogged(Search_adv_discord_bot(q, f), f, n)

\* discord_bot1.py ask
Ask_discord_bot1(q, f, n) == AskLogged(Search_discord_bot1(q, f), f, n)

\* discord_bot.py ask: generate_response re-raises; store_qa_interaction
\* swallows a failed insert and its record has no `success` field
Ask_discord_bot(q, f, n) ==
    LET r == Search_discord_bot(q, f)
        net == NetCalls(r.log)
    IN IF r.texts = <<>> THEN Out(r, "none", net, <<>>, <<Canned>>)
       ELSE IF "completion" \in f
       THEN Out(r, "fail", Append(net, "completion"), <<>>, <<>>)
       ELSE IF "insert" \in f
       THEN InsertFailed(Out(r, "ok", net \o <<"completion", "store">>, <<>>,
                             Parts(n, 1900, 1900)))
       ELSE Out(r, "ok", net \o <<"completion", "store">>, <<"absent">>, Parts(n, 1900, 1900))

\* the synchronous part of the ask handler of revision b
Ask(b, q, f, n) ==
    CASE b = "ragapp" -> Ask_ragapp(q, f, n)
      [] b = "adv_discord_bot1" -> Ask_adv_discord_bot1(q, f, n)
      [] b = "adv_dis" -> Ask_adv_dis(q, f, n)
      [] b = "adv_dis1" -> Ask_adv_dis1(q, f, n)
      [] b = "advanced_discord_bot" -> Ask_advanced_discord_bot(q, f, n)
      [] b = "adv_discord_bot" -> Ask_adv_discord_bot(q, f, n)
      [] b = "discord_bot" -> Ask_discord_bot(q, f, n)
      [] b = "discord_bot1" -> Ask_discord_bot1(q, f, n)

\* ping of ragapp.py, adv_dis.py, advanced_discord_bot.py: one message, no
\* call to the store
\* the connectivity probe of a ping handler, admin.command('ping'), and
\* whether it returned
Probe(ok) == Result(<<>>, FALSE, <<IF ok THEN Ok("ping", 0) ELSE Err("ping")>>)

Ping_pong(f) == Out(NoSearch, "none", <<>>, <<>>, <<Msg("pong", FALSE)>>)

\* adv_discord_bot1.py ping: deferred, then the store is pinged; an error is
\* answered only if the interaction is not yet acknowledged
Ping_adv_discord_bot1(f) ==
    IF "ping" \in f THEN Out(Probe(FALSE), "none", <<"store">>, <<>>, <<>>)
    ELSE Out(Probe(TRUE), "none", <<"store">>, <<>>, <<Msg("db_ok", FALSE)>>)

\* adv_dis1.py, discord_bot1.py ping: test_connection returns (False, str(e))
\* and the text goes into the follow-up
Ping_test_connection(f) ==
    IF "ping" \in f THEN Out(Probe(FALSE), "none", <<"store">>, <<>>, <<Msg("db_failed", TRUE)>>)
    ELSE Out(Probe(TRUE), "none", <<"store">>, <<>>, <<Msg("db_ok", FALSE)>>)

\* adv_discord_bot.py ping: the store is pinged, then the first response
Ping_adv_discord_bot(f) ==
    IF "ping" \in f THEN Out(Probe(FALSE), "none", <<"store">>, <<>>, <<ErrorMsg>>)
    ELSE Out(Probe(TRUE), "none", <<"store">>, <<>>, <<Msg("db_ok", FALSE)>>)

\* discord_bot.py ping: verify_connection pings, counts and samples the
\* collection and returns False on an error or an empty collection
Ping_discord_bot(f) ==
    IF "ping" \in f THEN Out(Probe(FALSE), "none", <<"store">>, <<>>, <<Msg("db_failed", FALSE)>>)
    ELSE IF "diag" \in f
    THEN Out(Probe(TRUE), "none", <<"store", "store">>, <<>>, <<Msg("db_failed", FALSE)>>)
    ELSE IF docs = <<>>
    THEN Out(Probe(TRUE), "none", <<"store", "store">>, <<>>, <<Msg("db_failed", FALSE)>>)
    ELSE Out(Probe(TRUE), "none", <<"store", "store", "store">>, <<>>, <<Msg("db_ok", FALSE)>>)

\* the synchronous part of the ping handler of revision b
Ping(b, f) ==
    CASE b \in {"ragapp", "adv_dis", "advanced_discord_bot"} -> Ping_pong(f)
      [] b = "adv_discord_bot1" -> Ping_adv_discord_bot1(f)
      [] b \in {"adv_dis1", "discord_bot1"} -> Ping_test_connection(f)
      [] b = "adv_discord_bot" -> Ping_adv_discord_bot(f)
      [] b = "discord_bot" -> Ping_discord_bot(f)

\* adv_dis.py test: ping, count and sample the collection, then the first
\* response
Test_adv_dis(f) ==
    IF "ping" \in f THEN Out(NoSearch, "none", <<"store">>, <<>>, <<ErrorMsg>>)
    ELSE IF "diag" \in f THEN Out(NoSearch, "none", <<"store", "store">>, <<>>, <<ErrorMsg>>)
    ELSE Out(NoSearch, "none", <<"store", "store", "store">>, <<>>, <<Msg("db_ok", FALSE)>>)

\* adv_discord_bot.py, discord_bot1.py stats: two counts and a query on the
\* history, then the first response
Stats(f) ==
    IF "diag" \in f THEN Out(NoSearch, "none", <<"store">>, <<>>, <<ErrorMsg>>)
    ELSE Out(NoSearch, "none", <<"store", "store", "store">>, <<>>, <<Msg("stats", FALSE)>>)

\* the synchronous part of the handler of command c in revision b
Handle(b, c, q, f, n) ==
    CASE c = "ask" -> Ask(b, q, f, n)
      [] c = "ping" -> Ping(b, f)
      [] c = "test" -> Test_adv_dis(f)
      [] c = "stats" -> Stats(f)

Bots == {"ragapp", "adv_discord_bot1", "adv_dis", "adv_dis1", "advanced_discord_bot",
         "adv_discord_bot", "discord_bot", "discord_bot1"}

\* the commands revision b registers (those the model covers)
Commands(b) ==
    {"ask", "ping"} \cup (IF b = "adv_dis" THEN {"test"} ELSE {})
                    \cup (IF b \in {"adv_discord_bot", "discord_bot1"} THEN {"stats"} ELSE {})

\* TRUE iff the handler awaits interaction.response.defer() before anything
\* else; the other handlers acknowledge with their first message
DefersFirst(b, c) ==
    \/ c = "ask"
    \/ c = "ping" /\ b \in {"adv_discord_bot1", "adv_dis1", "discord_bot", "discord_bot1"}

----------------------------------------------------------------------------
(* The state machine *)

\* the environment variables every revision reads
Required == {"DISCORD_TOKEN", "OPENAI_API_KEY", "MONGODB_URI"}

NoStats == [kind |-> "none"]

NoHealth == [pc |-> "idle", status |-> 0, waited |-> 0, raised |-> FALSE]

\* no ingestion has run
NoIngest == [pc |-> "idle", embedded |-> 0, previous |-> <<>>]

\* the values a secret can have
SecretValues == {"s1", "s2"}

NoFile == [present |-> FALSE, vars |-> {}]

\* the tasks of the event loop that use the DatabaseManager: task 0 is
\* monitor_connection, the others are the command handlers
Tasks == 0..MaxInvocations

\* a task outside ensure_connection. attempt is the loop variable, tries
\* counts the attempts of the current call, delays lists its sleeps, result
\* says how the call ended, torn whether the caller then used a database
\* handle that does not belong to the current client
NoTask == [pc |-> "idle", attempt |-> 0, tries |-> 0, delays |-> <<>>,
           result |-> "none", torn |-> FALSE]

\* how a handle stands to self.client: "none" (not set), "current" (made
\* from self.client), "stale" (made from a client since replaced).
\* last_init is the outcome of the latest init_connection. Since connected
\* last became False, attempted holds the tasks that called init_connection
\* and recreated those whose call succeeded
ManagerUp == [client |-> "set", db |-> "current", qa_collection |-> "current",
              last_init |-> "ok", attempted |-> {}, recreated |-> {}]

\* the environment as the deployment sets it, nothing logged yet, the
\* manager connected and no task inside it
ExtIdle ==
    /\ ingest = NoIngest
    /\ secrets = [v \in Required |-> "s1"]
    /\ dotenv = NoFile
    /\ logged = <<>>
    /\ manager = ManagerUp
    /\ co = [t \in Tasks |-> NoTask]

\* the process has started, the gateway is ready, the store is connected,
\* and no stats or health request has been made
Serving ==
    /\ stats_msg = NoStats
    /\ is_fully_ready = TRUE
    /\ store_up = TRUE
    /\ health = NoHealth
    /\ phase = "serving"
    /\ env = Required
    /\ connected = TRUE
    /\ ExtIdle

Init ==
    /\ bot \in Bots
    /\ docs \in Stores
    /\ vindex \in BOOLEAN
    /\ qa_history = <<>>
    /\ cmd = [i \in Interactions |-> "none"]
    /\ question = [i \in Interactions |-> <<>>]
    /\ pc = [i \in Interactions |-> "idle"]
    /\ acked = [i \in Interactions |-> FALSE]
    /\ sent = [i \in Interactions |-> <<>>]
    /\ calls = [i \in Interactions |-> <<>>]
    /\ found = [i \in Interactions |-> NoSearch]
    /\ compl = [i \in Interactions |-> "none"]
    /\ pending = [i \in Interactions |-> <<>>]
    /\ insert_failed = [i \in Interactions |-> FALSE]
    /\ answer = [i \in Interactions |-> 0]
    /\ Serving

\* the gateway dispatches a command: a new handler coroutine
Begin(i) ==
    /\ pc[i] = "idle"
    /\ IF i = 1 THEN TRUE ELSE pc[i - 1] # "idle"
    /\ \E c \in Commands(bot) :
        /\ cmd' = [cmd EXCEPT ![i] = c]
        /\ \E q \in (IF c = "ask" THEN Questions ELSE {<<>>}) :
              question' = [question EXCEPT ![i] = q]
    /\ pc' = [pc EXCEPT ![i] = "start"]
    /\ UNCHANGED <<bot, docs, vindex, qa_history, acked, sent, calls, found, compl, pending,
                   insert_failed, answer, aux>>

\* await interaction.response.defer()
Defer(i) ==
    /\ pc[i] = "start"
    /\ DefersFirst(bot, cmd[i])
    /\ acked' = [acked EXCEPT ![i] = TRUE]
    /\ calls' = [calls EXCEPT ![i] = Append(@, "ack")]
    /\ pc' = [pc EXCEPT ![i] = "run"]
    /\ UNCHANGED <<bot, docs, vindex, qa_history, cmd, question, sent, found, compl, pending,
                   insert_failed, answer, aux>>

\* the records a handler inserts into qa_history
Records(i, hist) == [j \in 1..Len(hist) |-> [inv |-> i, success |-> hist[j]]]

\* what the handler of command c can do on question q when the Completion
\* Service would return an answer of n characters, over the calls that raise
Outcomes(b, c, q, n) == {Handle(b, c, q, f, n) : f \in FaultSets}

\* the handler runs to its first send (or to its end): retrieval, completion
\* and history insertion are synchronous calls
Run(i) ==
    /\ \/ pc[i] = "run"
       \/ pc[i] = "start" /\ ~DefersFirst(bot, cmd[i])
    /\ \E n \in AnswerLens : \E o \in Outcomes(bot, cmd[i], question[i], n) :
           /\ found' = [found EXCEPT ![i] = o.found]
           /\ compl' = [compl EXCEPT ![i] = o.compl]
           /\ answer' = [answer EXCEPT ![i] = IF o.compl = "ok" THEN n ELSE 0]
           /\ calls' = [calls EXCEPT ![i] = @ \o o.calls]
           /\ qa_history' = qa_history \o Records(i, o.hist)
           /\ pending' = [pending EXCEPT ![i] = o.msgs]
           /\ insert_failed' = [insert_failed EXCEPT ![i] = o.insert_failed]
           /\ pc' = [pc EXCEPT ![i] = IF o.msgs = <<>> THEN "done" ELSE "send"]
    /\ UNCHANGED <<bot, docs, vindex, cmd, question, acked, sent, aux>>

\* Send with the parts issued together and delivered in any order
Send_unordered(i) ==
    /\ pc[i] = "send"
    /\ \E j \in 1..Len(pending[i]) :
          /\ sent' = [sent EXCEPT ![i] = Append(@, pending[i][j])]
          /\ pending' = [pending EXCEPT ![i] =
                            SubSeq(@, 1, j - 1) \o SubSeq(@, j + 1, Len(@))]
    /\ acked' = [acked EXCEPT ![i] = TRUE]
    /\ calls' = [calls EXCEPT ![i] = IF acked[i] THEN @ ELSE Append(@, "ack")]
    /\ pc' = [pc EXCEPT ![i] = IF Len(pending[i]) = 1 THEN "done" ELSE "send"]
    /\ UNCHANGED <<bot, docs, vindex, qa_history, cmd, question, found, compl, insert_failed,
                   answer, aux>>

\* await interaction.followup.send(...) / interaction.response.send_message(...):
\* the next message is delivered; the first response acknowledges
Send(i) ==
    /\ pc[i] = "send"
    /\ sent' = [sent EXCEPT ![i] = Append(@, Head(pending[i]))]
    /\ pending' = [pending EXCEPT ![i] = Tail(@)]
    /\ acked' = [acked EXCEPT ![i] = TRUE]
    /\ calls' = [calls EXCEPT ![i] = IF acked[i] THEN @ ELSE Append(@, "ack")]
    /\ pc' = [pc EXCEPT ![i] = IF Len(pending[i]) = 1 THEN "done" ELSE "send"]
    /\ UNCHANGED <<bot, docs, vindex, qa_history, cmd, question, found, compl, insert_failed,
                   answer, aux>>

Next == \E i \in Interactions : Begin(i) \/ Defer(i) \/ Run(i) \/ Send(i)

Spec == Init /\ [][Next]_vars

----------------------------------------------------------------------------
(* The tiers of each revision, in the order the code tries them *)

Tiers(b) ==
    CASE b = "ragapp" -> <<"vector">>
      [] b = "adv_discord_bot1" -> <<>>
      [] b = "adv_dis" -> <<"text", "text2">>
      [] b = "discord_bot" -> <<"text", "text2", "vector", "fallback">>
      [] OTHER -> <<"text", "vector">>

\* the embedding call belongs to the vector tier
TierOf(t) == IF t = "embed" THEN "vector" ELSE t

\* the retrieval of interaction i has run
Retrieved(i) == cmd[i] = "ask" /\ pc[i] \in {"send", "done"}

\* some chunk of the store contains a term derived from q (the lower-cased
\* query, a word of it, or two adjacent words), matched literally
HasMatch(q) ==
    \E j \in 1..Len(docs) : \E t \in SearchTerms(q) : TermInText(t, docs[j], TRUE, FALSE)

\* the limit k revision b passes to its retrieval
LimitOf(b) == IF b \in {"ragapp", "adv_discord_bot1", "adv_dis", "adv_dis1"} THEN K3 ELSE K5

----------------------------------------------------------------------------
(* The claims *)

\* C1: in every retrieval, once a tier has returned at least one result no
\* later tier is invoked (so nothing of another tier is merged in).
C1_FirstTierWins ==
    \A i \in Interactions :
        LET log == found[i].log
        IN \A p \in 1..Len(log) :
              (log[p].tier # "embed" /\ log[p].ok /\ log[p].n > 0) => p = Len(log)

\* C2: the retrieval call of an ask handler never raises, and when no tier
\* found anything it returns the empty list.
C2_RetrieveNeverRaises ==
    \A i \in Interactions :
        Retrieved(i) =>
            /\ ~found[i].raised
            /\ (\A p \in 1..Len(found[i].log) : found[i].log[p].n = 0) => found[i].texts = <<>>

\* C3: a tier whose query fails counts as a tier without results: the
\* retrieval does not raise and goes on to the next tier of the revision,
\* and the Embedding Service is called at most once per retrieval.
C3_TierFailureFallsThrough ==
    \A i \in Interactions :
        LET log == found[i].log
            ts == Tiers(bot)
        IN /\ Cardinality({p \in 1..Len(log) : log[p].tier = "embed"}) <= 1
           /\ \A p \in 1..Len(log) :
                (~log[p].ok /\ log[p].tier # "diag") =>
                    /\ ~found[i].raised
                    /\ \A x \in 1..(Len(ts) - 1) :
                          ts[x] = TierOf(log[p].tier) =>
                              \E r \in (p + 1)..Len(log) : TierOf(log[r].tier) = ts[x + 1]

\* C4: when the store holds a chunk matching the question and no call fails,
\* the retrieval returns a non-empty list of at most k texts.
C4_MatchFound ==
    \A i \in Interactions :
        (/\ Retrieved(i)
         /\ HasMatch(question[i])
         /\ \A p \in 1..Len(found[i].log) : found[i].log[p].ok)
        => /\ found[i].texts # <<>>
           /\ Len(found[i].texts) <= LimitOf(bot)

\* C5: an ask whose retrieval returned the empty list never calls the
\* Completion Service and replies with the canned message.
C5_NoCompletionOnEmpty ==
    \A i \in Interactions :
        (Retrieved(i) /\ ~found[i].raised /\ found[i].texts = <<>>)
        => /\ compl[i] = "none"
           /\ "completion" \notin Range(calls[i])
           /\ pending[i] \o sent[i] \in {<<Canned>>}

\* C6: an ask whose retrieval is empty, and whose inserts into the history
\* did not raise, ends with the canned reply sent and a success=false
\* history record written for it.
C6_EmptyRetrievalLogged ==
    \A i \in Interactions :
        (/\ cmd[i] = "ask" /\ pc[i] = "done"
         /\ ~found[i].raised /\ found[i].texts = <<>>
         /\ ~insert_failed[i])
        => /\ sent[i] = <<Canned>>
           /\ \E j \in 1..Len(qa_history) :
                 qa_history[j].inv = i /\ qa_history[j].success = "false"

\* C7: when the completion call fails, what the user gets is the fixed
\* generic failure text, and no message carries the text of the exception.
C7_CompletionFailureGeneric ==
    \A i \in Interactions :
        compl[i] = "fail" =>
            /\ \A m \in Range(sent[i]) \cup Range(pending[i]) : ~m.exc
            /\ pc[i] = "done" => sent[i] = <<Generic>>

\* C8: a history record with success=true belongs to an invocation whose
\* completion call returned an answer, and was inserted after that call.
C8_SuccessOnlyAfterCompletion ==
    \A j \in 1..Len(qa_history) :
        qa_history[j].success = "true" =>
            LET i == qa_history[j].inv
            IN /\ compl[i] = "ok"
               /\ \E p \in 1..Len(calls[i]) :
                     /\ calls[i][p] = "completion"
                     /\ \E r \in (p + 1)..Len(calls[i]) : calls[i][r] = "store"

\* C8 witness: an ask whose completion call failed has finished with its
\* failure record written, next to an ask that was answered and recorded
\* as a success.
C8_Witness ==
    \E i, k \in Interactions :
        /\ compl[i] = "fail" /\ pc[i] = "done"
        /\ \E j \in 1..Len(qa_history) : qa_history[j].inv = i /\ qa_history[j].success = "false"
        /\ compl[k] = "ok"
        /\ \E j \in 1..Len(qa_history) : qa_history[j].inv = k /\ qa_history[j].success = "true"

\* C9: every finished invocation has given the user a response: one message,
\* or the parts of one answer.
C9_OneResponse ==
    \A i \in Interactions :
        pc[i] = "done" =>
            /\ sent[i] # <<>>
            /\ Len(sent[i]) > 1 => \A m \in Range(sent[i]) : m.kind = "answer"

\* C10: a handler acknowledges the interaction before it calls the Document
\* Store or the Completion Service.
C10_AckBeforeNetwork ==
    \A i \in Interactions :
        \A p \in 1..Len(calls[i]) :
            calls[i][p] \in {"store", "completion"} =>
                \E r \in 1..(p - 1) : calls[i][r] = "ack"

----------------------------------------------------------------------------
(* Splitting and sending of answers *)

\* the answer parts delivered so far for interaction i
AnswerSent(i) == SelectSeq(sent[i], LAMBDA m : m.kind = "answer")

\* C11: at every moment the parts delivered for an invocation are an initial
\* run of its answer, in position order: the first starts at 0, each next
\* one starts where the previous ended, and the part to be sent next
\* continues the last delivered one, whatever the other invocations do.
C11_PartsInOrder ==
    \A i \in Interactions :
        LET a == AnswerSent(i)
        IN /\ a # <<>> => a[1].lo = 0
           /\ \A j \in 1..(Len(a) - 1) : a[j + 1].lo = a[j].hi
           /\ (a # <<>> /\ pending[i] # <<>>) => Head(pending[i]).lo = a[Len(a)].hi

\* C11 witness: two invocations with multi-part answers are both in the
\* middle of sending, one with two parts out and the other with one.
C11_Witness ==
    \E i, k \in Interactions :
        /\ i # k /\ pc[i] = "send" /\ pc[k] = "send"
        /\ Len(AnswerSent(i)) = 2 /\ Len(AnswerSent(k)) = 1
        /\ pending[k] # <<>> /\ Head(pending[k]).kind = "answer"

\* the length above which the ask handler of revision b splits
Threshold(b) ==
    IF b \in {"adv_discord_bot1", "adv_dis", "adv_dis1", "discord_bot"} THEN 1900 ELSE 2000

\* the width of the slices the ask handler of revision b cuts
Margin(b) ==
    IF b \in {"adv_discord_bot1", "adv_dis", "adv_dis1", "discord_bot"} THEN 1900 ELSE 1990

\* answer lengths around the thresholds and margins and their multiples
SplitLens ==
    {0, 1, 1899, 1900, 1901, 1989, 1990, 1991, 2000, 2001, 3800, 3801, 3980, 3981, 4000}

\* a store in which every question of the model retrieves a chunk
InitSplit == Init /\ docs = <<ChunkLong>> /\ vindex

\* Run with every external call succeeding and the Completion Service
\* returning an answer of any of the lengths above
RunSplit(i) ==
    /\ \/ pc[i] = "run"
       \/ pc[i] = "start" /\ ~DefersFirst(bot, cmd[i])
    /\ \E n \in SplitLens :
           \E o \in {Handle(bot, cmd[i], question[i], {}, n)} :
              /\ found' = [found EXCEPT ![i] = o.found]
              /\ compl' = [compl EXCEPT ![i] = o.compl]
              /\ answer' = [answer EXCEPT ![i] = IF o.compl = "ok" THEN n ELSE 0]
              /\ calls' = [calls EXCEPT ![i] = @ \o o.calls]
              /\ qa_history' = qa_history \o Records(i, o.hist)
              /\ pending' = [pending EXCEPT ![i] = o.msgs]
              /\ insert_failed' = [insert_failed EXCEPT ![i] = o.insert_failed]
              /\ pc' = [pc EXCEPT ![i] = IF o.msgs = <<>> THEN "done" ELSE "send"]
    /\ UNCHANGED <<bot, docs, vindex, cmd, question, acked, sent, aux>>

NextSplit == \E i \in Interactions : Begin(i) \/ Defer(i) \/ RunSplit(i) \/ Send(i)

SpecSplit == InitSplit /\ [][NextSplit]_vars

\* interaction i is an ask that was answered and has sent everything
Answered(i) == cmd[i] = "ask" /\ compl[i] = "ok" /\ pc[i] = "done" /\ ~insert_failed[i]

\* the lengths of the messages delivered for interaction i
SentLens(i) == [j \in 1..Len(sent[i]) |-> sent[i][j].hi - sent[i][j].lo]

\* C12: the messages sent for an answer of n characters, put end to end in
\* the order sent, are the answer: they start at 0, each starts where the
\* previous one ended, and the last ends at n.
C12_RoundTrip ==
    \A i \in Interactions :
        Answered(i) =>
            LET a == sent[i]
            IN /\ a # <<>>
               /\ \A j \in 1..Len(a) : a[j].kind = "answer" /\ a[j].lo <= a[j].hi
               /\ a[1].lo = 0
               /\ \A j \in 1..(Len(a) - 1) : a[j + 1].lo = a[j].hi
               /\ a[Len(a)].hi = answer[i]

\* C12 witness: an empty answer and an answer one character over the
\* threshold have both been sent, the latter in two parts.
C12_Witness ==
    \E i, k \in Interactions :
        /\ Answered(i) /\ answer[i] = 0
        /\ Answered(k) /\ answer[k] = Threshold(bot) + 1 /\ Len(sent[k]) = 2

\* C13 as stated: every message sent for an answer has at most Margin
\* characters (1900 or 1990), whatever the length of the answer.
C13_WithinMargin ==
    \A i \in Interactions :
        \A j \in 1..Len(sent[i]) :
            sent[i][j].kind = "answer" => SentLens(i)[j] <= Margin(bot)

\* C13 amended: every message sent for an answer has at most Threshold
\* characters (1900 or 2000), and every part of an answer that was split
\* has at most Margin characters (1900 or 1990).
C13_WithinThreshold ==
    \A i \in Interactions :
        \A j \in 1..Len(sent[i]) :
            sent[i][j].kind = "answer" =>
                /\ SentLens(i)[j] <= Threshold(bot)
                /\ answer[i] > Threshold(bot) => SentLens(i)[j] <= Margin(bot)

\* C13 witness: an answer longer than the margin and not longer than the
\* threshold went out as one message, and a longer one went out in parts.
C13_Witness ==
    \E i, k \in Interactions :
        /\ Answered(i) /\ answer[i] > Margin(bot) /\ Len(sent[i]) = 1
        /\ Answered(k) /\ answer[k] > Threshold(bot) /\ Len(sent[k]) > 1

\* the number of parts the claim expects for n characters and part size m
CeilDiv(n, m) == (n + m - 1) \div m

\* C14 as stated, M being the split threshold: an answer of more than M
\* characters is sent as ceil(n/M) parts, all but the last of exactly M
\* characters.
C14_CeilPartsOfThreshold ==
    \A i \in Interactions :
        (Answered(i) /\ answer[i] > Threshold(bot)) =>
            /\ Len(sent[i]) = CeilDiv(answer[i], Threshold(bot))
            /\ \A j \in 1..(Len(sent[i]) - 1) : SentLens(i)[j] = Threshold(bot)

\* C14 amended: an answer of n characters is split when n exceeds the
\* threshold T, into ceil(n/M) parts for the margin M: all but the last have
\* exactly M characters and the last has the rest; up to T characters it is
\* one message. For n = 4000 and T = M = 1900 the parts are 1900, 1900, 200.
C14_CeilPartsOfMargin ==
    \A i \in Interactions :
        Answered(i) =>
            LET n == answer[i]
                m == Margin(bot)
            IN /\ n <= Threshold(bot) => SentLens(i) = <<n>>
               /\ n > Threshold(bot) =>
                    /\ Len(sent[i]) = CeilDiv(n, m)
                    /\ \A j \in 1..(Len(sent[i]) - 1) : SentLens(i)[j] = m
                    /\ SentLens(i)[Len(sent[i])] = n - (Len(sent[i]) - 1) * m
               /\ (n = 4000 /\ m = 1900) => SentLens(i) = <<1900, 1900, 200>>

\* C14 witness: an answer of 4000 characters went out under margin 1900,
\* next to an answer that is an exact multiple of the margin.
C14_Witness ==
    \E i, k \in Interactions :
        /\ Answered(i) /\ answer[i] = 4000 /\ Margin(bot) = 1900 /\ Len(sent[i]) = 3
        /\ Answered(k) /\ answer[k] = 2 * Margin(bot) /\ Len(sent[k]) = 2

----------------------------------------------------------------------------
(* History records and the document collection *)

\* the records of qa_history written by interaction i
RecordsOf(i) == SelectSeq(qa_history, LAMBDA r : r.inv = i)

\* C15: every ask that has run to its end, with no insert raising, has
\* written exactly one history record.
C15_OneRecordPerAsk ==
    \A i \in Interactions :
        (cmd[i] = "ask" /\ pc[i] = "done" /\ ~insert_failed[i]) => Len(RecordsOf(i)) = 1

\* C16: when the history insert raises after the answer was computed, the
\* user still gets the whole answer and nothing but the answer.
C16_HistoryFailureHidden ==
    \A i \in Interactions :
        (cmd[i] = "ask" /\ compl[i] = "ok" /\ insert_failed[i] /\ pc[i] = "done") =>
            /\ sent[i] # <<>>
            /\ \A j \in 1..Len(sent[i]) : sent[i][j].kind = "answer"
            /\ sent[i][1].lo = 0
            /\ sent[i][Len(sent[i])].hi = answer[i]

\* the chunk process_text makes of DOCUMENT_CONTENT, stored with its embedding
ChunkDoc == [ChunkOther EXCEPT !.id = 9]

\* on_ready, the gateway's ready event (fired again after every reconnect).
\* ragapp.py: initialize_knowledge_base clears the collection and stores the
\* chunks of DOCUMENT_CONTENT; when an embedding call raises in between, the
\* collection stays cleared. discord_bot1.py and adv_dis1.py set
\* is_fully_ready; the other revisions only log.
OnReady ==
    /\ docs' \in (IF bot = "ragapp" THEN {<<ChunkDoc>>, <<>>} ELSE {docs})
    /\ is_fully_ready' = TRUE
    /\ UNCHANGED <<bot, vindex, qa_history, cmd, question, pc, acked, sent, calls, found,
                   compl, pending, insert_failed, answer>>
    /\ UNCHANGED <<stats_msg, store_up, health, phase, env, connected, ext>>

NextEvents == OnReady \/ \E i \in Interactions : Begin(i) \/ Defer(i) \/ Run(i) \/ Send(i)

SpecEvents == Init /\ [][NextEvents]_vars

\* C17: no step of the running bot changes the document collection.
C17_DocsUnchanged == [][docs' = docs]_vars

----------------------------------------------------------------------------
(* The stats command *)

MaxRecords == 6
MaxGuilds == 2
RecentLimit == 5

Guilds == 1..MaxGuilds

\* no command is in progress
Quiet ==
    /\ cmd = [i \in Interactions |-> "none"]
    /\ question = [i \in Interactions |-> <<>>]
    /\ pc = [i \in Interactions |-> "idle"]
    /\ acked = [i \in Interactions |-> FALSE]
    /\ sent = [i \in Interactions |-> <<>>]
    /\ calls = [i \in Interactions |-> <<>>]
    /\ found = [i \in Interactions |-> NoSearch]
    /\ compl = [i \in Interactions |-> "none"]
    /\ pending = [i \in Interactions |-> <<>>]
    /\ insert_failed = [i \in Interactions |-> FALSE]
    /\ answer = [i \in Interactions |-> 0]

\* the revisions with a statistics command
StatsBots == {"adv_discord_bot", "discord_bot1", "advanced_discord_bot"}

\* a history record as the ask handlers insert it, with the guild the ask
\* came from; the position in qa_history stands for its timestamp
HistoryRecords == [inv : {0}, success : {"true", "false"}, guild : Guilds]

Histories == UNION {[1..n -> HistoryRecords] : n \in 0..MaxRecords}

\* the positions of s in descending order
Reverse(s) == [j \in 1..Len(s) |-> s[Len(s) + 1 - j]]

\* f"{(successful/total*100 if total > 0 else 0):.1f}", in tenths of a percent
RateTenths(successful, total) ==
    IF total > 0 THEN (2000 * successful + total) \div (2 * total) ELSE 0

\* find(query).sort('timestamp', -1).limit(5) over the records among
\* positions ps: the timestamps of the newest ones, newest first
Recent(ps) == Take(Reverse(ps), RecentLimit)

\* adv_discord_bot.py, discord_bot1.py stats in guild g
StatsScoped(g) ==
    LET scope == SelectSeq([j \in 1..Len(qa_history) |-> j],
                           LAMBDA j : qa_history[j].guild = g)
        total == Len(scope)
        successful == Len(SelectSeq(scope, LAMBDA j : qa_history[j].success = "true"))
    IN [kind |-> "stats", guild |-> g, total |-> total, successful |-> successful,
        has_rate |-> TRUE, rate |-> RateTenths(successful, total),
        recent |-> Recent(scope)]

\* the guilds revision b registers its commands in: advanced_discord_bot.py
\* syncs its command tree to the one guild GUILD_ID, the others globally
GuildsOf(b) == IF b = "advanced_discord_bot" THEN {1} ELSE Guilds

\* advanced_discord_bot.py qa_stats: the records carry no guild_id and the
\* queries have no filter; it reports the failed count and no rate
QaStats(g) ==
    LET all == [j \in 1..Len(qa_history) |-> j]
        successful == Len(SelectSeq(all, LAMBDA j : qa_history[j].success = "true"))
    IN [kind |-> "stats", guild |-> g, total |-> Len(all), successful |-> successful,
        has_rate |-> FALSE, rate |-> 0, recent |-> Recent(all)]

InitStats ==
    /\ bot \in StatsBots
    /\ docs = <<>>
    /\ vindex = FALSE
    /\ qa_history \in Histories
    /\ \A j \in 1..Len(qa_history) : qa_history[j].guild \in GuildsOf(bot)
    /\ Quiet
    /\ Serving

\* the stats (qa_stats) command issued in guild g
StatsRun ==
    /\ \E g \in GuildsOf(bot) :
          stats_msg' = IF bot = "advanced_discord_bot" THEN QaStats(g) ELSE StatsScoped(g)
    /\ UNCHANGED <<bot, docs, vindex, qa_history, cmd, question, pc, acked, sent, calls,
                   found, compl, pending, insert_failed, answer>>
    /\ UNCHANGED <<is_fully_ready, store_up, health, phase, env, connected, ext>>

SpecStats == InitStats /\ [][StatsRun]_vars

\* the timestamps of the records of guild g
Scope(g) == {j \in 1..Len(qa_history) : qa_history[j].guild = g}

\* C18: a stats report for a guild gives the number of that guild's records
\* as total, the number of those with success=true as successful, the rate
\* successful/total in percent (to one decimal), 0 for an empty scope, and
\* as recent the at most RecentLimit newest records of the guild, newest
\* first.
C18_StatsOfScope ==
    stats_msg.kind = "stats" =>
        LET sc == Scope(stats_msg.guild)
            ok == {j \in sc : qa_history[j].success = "true"}
            rec == stats_msg.recent
        IN /\ stats_msg.total = Cardinality(sc)
           /\ stats_msg.successful = Cardinality(ok)
           /\ stats_msg.has_rate
           /\ sc = {} => stats_msg.rate = 0 /\ rec = <<>>
           /\ LET d == stats_msg.rate * Cardinality(sc) - 1000 * Cardinality(ok)
              IN 2 * d <= Cardinality(sc) /\ -2 * d <= Cardinality(sc)
           /\ Len(rec) = Min(RecentLimit, Cardinality(sc))
           /\ \A j \in 1..Len(rec) : rec[j] \in sc
           /\ \A j \in 1..(Len(rec) - 1) : rec[j] > rec[j + 1]
           /\ \A x \in sc \ Range(rec) : \A j \in 1..Len(rec) : x < rec[j]

----------------------------------------------------------------------------
(* The health endpoint *)

\* the revisions that serve health_check
HealthBots == {"discord_bot1", "adv_dis1"}

startup_grace_period == 10

\* health_check decided on one flag only
HealthStatus_ready(ready, db, raised) ==
    IF raised THEN 503 ELSE IF ready THEN 200 ELSE 503

\* the status health_check returns: 200 if status["discord"] and
\* status["database"], else 503; 503 from the except branch
HealthStatus(ready, db, raised) ==
    IF raised THEN 503 ELSE IF ready /\ db THEN 200 ELSE 503

InitHealth ==
    /\ bot \in HealthBots
    /\ docs = <<>>
    /\ vindex = FALSE
    /\ qa_history = <<>>
    /\ Quiet
    /\ stats_msg = NoStats
    /\ is_fully_ready = FALSE
    /\ store_up \in BOOLEAN
    /\ health = NoHealth
    /\ phase = "serving"
    /\ env = Required
    /\ connected = TRUE
    /\ ExtIdle

\* the Document Store becomes unreachable, or reachable again
StoreFlip ==
    /\ store_up' = ~store_up
    /\ UNCHANGED <<bot, docs, vindex, qa_history, cmd, question, pc, acked, sent, calls,
                   found, compl, pending, insert_failed, answer>>
    /\ UNCHANGED <<stats_msg, is_fully_ready, health, phase, env, connected, ext>>

\* GET / or /healthz arrives
HealthRequest ==
    /\ health.pc \in {"idle", "done"}
    /\ health' = [pc |-> "waiting", status |-> 0, waited |-> 0, raised |-> FALSE]
    /\ UNCHANGED <<bot, docs, vindex, qa_history, cmd, question, pc, acked, sent, calls,
                   found, compl, pending, insert_failed, answer>>
    /\ UNCHANGED <<stats_msg, is_fully_ready, store_up, phase, env, connected, ext>>

\* adv_dis1.py: one round of the grace period loop, await asyncio.sleep(1)
HealthWait ==
    /\ bot = "adv_dis1"
    /\ health.pc = "waiting"
    /\ ~is_fully_ready
    /\ health.waited < startup_grace_period
    /\ health' = [health EXCEPT !.waited = @ + 1]
    /\ UNCHANGED <<bot, docs, vindex, qa_history, cmd, question, pc, acked, sent, calls,
                   found, compl, pending, insert_failed, answer>>
    /\ UNCHANGED <<stats_msg, is_fully_ready, store_up, phase, env, connected, ext>>

\* the rest of health_check: the flag is read, the store pinged through
\* test_connection, and the response built; `raised` is the except branch
HealthAnswer ==
    /\ health.pc = "waiting"
    /\ \/ bot = "discord_bot1"
       \/ is_fully_ready
       \/ health.waited = startup_grace_period
    /\ \E raised \in BOOLEAN :
          health' = [pc |-> "done", status |-> HealthStatus(is_fully_ready, store_up, raised),
                     waited |-> health.waited, raised |-> raised]
    /\ UNCHANGED <<bot, docs, vindex, qa_history, cmd, question, pc, acked, sent, calls,
                   found, compl, pending, insert_failed, answer>>
    /\ UNCHANGED <<stats_msg, is_fully_ready, store_up, phase, env, connected, ext>>

NextHealth == OnReady \/ StoreFlip \/ HealthRequest \/ HealthWait \/ HealthAnswer

SpecHealth == InitHealth /\ [][NextHealth]_vars

\* C19: the step that answers a health request answers 200 exactly when, at
\* that moment, the bot is ready and the store answers the ping and the
\* check did not raise, and 503 in every other case.
C19_HealthExact ==
    [][(health.pc = "waiting" /\ health'.pc = "done") =>
          /\ health'.status \in {200, 503}
          /\ health'.status = 200 <=> (is_fully_ready /\ store_up /\ ~health'.raised)]_vars

\* C19 witness: a request that waited in the grace period was answered 200.
C19_Witness == health.pc = "done" /\ health.status = 200 /\ health.waited > 0

----------------------------------------------------------------------------
(* Start of the process *)

\* the revisions whose start is modelled
StartupBots == {"discord_bot1", "adv_dis1"}

\* a log line: its fixed text and the data formatted into it
Line(text, data) == [text |-> text, data |-> data]

\* discord_bot1.py load_environment: the lines it logs for the file .env
\* `file`, the set variables `e` and their values `s`. The whole content of
\* .env is logged when the file can be read; then one line per required
\* variable says whether it is set.
load_environment_log(file, e, s) ==
    (IF file.present
     THEN <<Line("Contents of .env file:", {}),
            Line("", {<<v, s[v]>> : v \in file.vars})>>
     ELSE <<Line("Could not read .env file", {})>>)
    \o <<Line("SET", Required \cap e), Line("NOT SET", Required \ e)>>
    \o (IF Required \subseteq e THEN <<>>
        ELSE <<Line("Missing required environment variables", Required \ e)>>)

\* the .env files a deployment with the variables e set can have:
\* load_dotenv puts every variable of the file into the environment
EnvFiles(e) == {NoFile} \cup {[present |-> TRUE, vars |-> S] : S \in SUBSET e}

InitStartup ==
    /\ bot \in StartupBots
    /\ docs = <<ChunkLong>>
    /\ vindex = TRUE
    /\ qa_history = <<>>
    /\ Quiet
    /\ stats_msg = NoStats
    /\ is_fully_ready = FALSE
    /\ store_up \in BOOLEAN
    /\ health = NoHealth
    /\ phase = "boot"
    /\ env \in SUBSET Required
    /\ connected = FALSE
    /\ ingest = NoIngest
    /\ secrets \in [Required -> SecretValues]
    /\ dotenv \in EnvFiles(env)
    /\ logged = <<>>
    /\ manager = ManagerUp
    /\ co = [t \in Tasks |-> NoTask]

\* module level, up to the creation of the bot object. discord_bot1.py:
\* load_environment raises ValueError when a required variable is missing.
\* adv_dis1.py reads the variables with os.getenv and checks nothing;
\* OpenAI(api_key=None) raises when OPENAI_API_KEY is not set.
LoadEnvironment ==
    /\ phase = "boot"
    /\ phase' = IF bot = "discord_bot1"
                THEN (IF Required \subseteq env THEN "loaded" ELSE "dead")
                ELSE (IF "OPENAI_API_KEY" \in env THEN "loaded" ELSE "dead")
    /\ logged' = IF bot = "discord_bot1"
                 THEN logged \o load_environment_log(dotenv, env, secrets)
                 ELSE logged
    /\ UNCHANGED <<bot, docs, vindex, qa_history, cmd, question, pc, acked, sent, calls,
                   found, compl, pending, insert_failed, answer>>
    /\ UNCHANGED <<stats_msg, is_fully_ready, store_up, health, env, connected,
                   ingest, secrets, dotenv, manager, co>>

\* DatabaseManager.__init__ / init_connection: a failure to connect is
\* logged, connected stays False, and the constructor returns normally.
\* adv_dis1.py passes an unset MONGODB_URI to MongoClient, which then
\* addresses the default local server: either outcome of its ping.
InitConnection ==
    /\ phase = "loaded"
    /\ connected' \in (IF "MONGODB_URI" \in env THEN {store_up} ELSE BOOLEAN)
    /\ logged' = logged \o (IF connected' THEN <<Line("initialized successfully", {})>>
                            ELSE <<Line("Failed to initialize", {"str(e)"})>>)
    /\ phase' = "constructed"
    /\ UNCHANGED <<bot, docs, vindex, qa_history, cmd, question, pc, acked, sent, calls,
                   found, compl, pending, insert_failed, answer>>
    /\ UNCHANGED <<stats_msg, is_fully_ready, store_up, health, env, ingest, secrets, dotenv,
                   manager, co>>

\* main: bot.start(DISCORD_TOKEN); without a token the login raises and
\* the process ends, otherwise the gateway delivers on_ready
StartBot ==
    /\ phase = "constructed"
    /\ phase' = IF "DISCORD_TOKEN" \in env THEN "serving" ELSE "dead"
    /\ is_fully_ready' = ("DISCORD_TOKEN" \in env)
    /\ UNCHANGED <<bot, docs, vindex, qa_history, cmd, question, pc, acked, sent, calls,
                   found, compl, pending, insert_failed, answer>>
    /\ UNCHANGED <<stats_msg, store_up, health, env, connected, ext>>

\* an ask served by the started process. Without a connection the
\* DatabaseManager has no docs_collection and no qa_collection: the
\* retrieval catches the AttributeError and returns []. discord_bot1.py
\* then raises on qa_collection.insert_one and sends "Error: ..." from
\* the handler's except branch; adv_dis1.py sends its no-result reply.
ServeAsk ==
    /\ phase = "serving"
    /\ pc[1] = "idle"
    /\ cmd' = [cmd EXCEPT ![1] = "ask"]
    /\ question' = [question EXCEPT ![1] = <<"MMBM">>]
    /\ acked' = [acked EXCEPT ![1] = TRUE]
    /\ pc' = [pc EXCEPT ![1] = "done"]
    /\ sent' = [sent EXCEPT ![1] =
                   IF connected THEN Parts(100, Threshold(bot), Margin(bot))
                   ELSE IF bot = "discord_bot1" THEN <<ErrorMsg>> ELSE <<Canned>>]
    /\ UNCHANGED <<bot, docs, vindex, qa_history, calls, found, compl, pending,
                   insert_failed, answer>>
    /\ UNCHANGED aux

NextStartup == LoadEnvironment \/ InitConnection \/ StartBot \/ ServeAsk \/ StoreFlip

SpecStartup == InitStartup /\ [][NextStartup]_vars

\* C20: a process that serves commands has every required variable set and
\* its store connection established, and no reply to a command is the
\* per-request trace of a failed start.
C20_FatalAtStartup ==
    phase = "serving" =>
        /\ Required \subseteq env
        /\ connected
        /\ \A j \in 1..Len(sent[1]) : sent[1][j].kind = "answer"

\* C21: no log line holds the value of a secret, and what the start of the
\* process logs is the same for every choice of the secrets' values.
C21_SecretsNotLogged ==
    phase # "boot" =>
        /\ \A l \in Range(logged) : \A v \in Required : <<v, secrets[v]>> \notin l.data
        /\ bot = "discord_bot1" =>
              \A s \in [Required -> SecretValues] :
                  load_environment_log(dotenv, env, s) =
                  load_environment_log(dotenv, env, secrets)

----------------------------------------------------------------------------
(* The DatabaseManager and the tasks that use it *)

\* the revisions with a DatabaseManager that is modelled here
ManagerBots == {"mongodb_connection", "adv_dis1", "discord_bot1"}

max_retries == 3
retry_delay == 2

\* DatabaseManager.__init__ before init_connection
ManagerNew == [client |-> "none", db |-> "none", qa_collection |-> "none",
               last_init |-> "none", attempted |-> {}, recreated |-> {}]

Stale(h) == IF h = "none" THEN "none" ELSE "stale"

\* init_connection with self.connected = True moved before the ping: a
\* failed ping leaves the flag set over handles of the replaced client
init_connection_early(m, o) ==
    IF o = "ping"
    THEN [client |-> "set", db |-> Stale(m.db), qa_collection |-> Stale(m.qa_collection),
          last_init |-> "failed", connected |-> TRUE]
    ELSE [client |-> "set", db |-> "current", qa_collection |-> "current",
          last_init |-> IF o = "ok" THEN "ok" ELSE "failed", connected |-> o = "ok"]

\* init_connection on the manager m with outcome o: "ok"; "ping" (the new
\* MongoClient is assigned, then the ping raises); "info" (mongodb_connection.py
\* only: server_info raises after self.connected = True). The result holds
\* the handles and the flag connected the method leaves behind.
init_connection(m, o) ==
    IF o = "ping"
    THEN [client |-> "set", db |-> Stale(m.db), qa_collection |-> Stale(m.qa_collection),
          last_init |-> "failed", connected |-> FALSE]
    ELSE [client |-> "set", db |-> "current", qa_collection |-> "current",
          last_init |-> IF o = "ok" THEN "ok" ELSE "failed", connected |-> o = "ok"]

\* the outcomes init_connection can have now. With "info" the store goes
\* down between the ping and server_info.
InitOutcomes ==
    IF store_up
    THEN {"ok"} \cup (IF bot = "mongodb_connection" THEN {"info"} ELSE {})
    ELSE {"ping"}

\* the manager after init_connection returned r in task t
Installed(r, t) ==
    [client |-> r.client, db |-> r.db, qa_collection |-> r.qa_collection,
     last_init |-> r.last_init,
     attempted |-> manager.attempted \cup {t},
     recreated |-> IF r.connected THEN manager.recreated \cup {t} ELSE manager.recreated]

\* a task entering ensure_connection
Entering == [NoTask EXCEPT !.pc = "ensure"]

InitManager ==
    /\ bot \in ManagerBots
    /\ docs = <<ChunkLong>>
    /\ vindex = TRUE
    /\ qa_history = <<>>
    /\ Quiet
    /\ stats_msg = NoStats
    /\ is_fully_ready = TRUE
    /\ store_up \in BOOLEAN
    /\ health = NoHealth
    /\ phase = "loaded"
    /\ env = Required
    /\ connected = FALSE
    /\ ingest = NoIngest
    /\ secrets = [v \in Required |-> "s1"]
    /\ dotenv = NoFile
    /\ logged = <<>>
    /\ manager = ManagerNew
    /\ co = [t \in Tasks |-> NoTask]

\* bot = QABot(): DatabaseManager.__init__ calls init_connection. In
\* mongodb_connection.py it re-raises and the import fails; in adv_dis1.py
\* and discord_bot1.py it returns and the bot starts unconnected. In
\* mongodb_connection.py setup_hook then starts monitor_connection.
Construct ==
    /\ phase = "loaded"
    /\ \E o \in InitOutcomes :
          \E r \in {init_connection(manager, o)} :
             /\ manager' = [Installed(r, 0) EXCEPT !.attempted = {}, !.recreated = {}]
             /\ connected' = r.connected
             /\ store_up' = IF o = "info" THEN FALSE ELSE store_up
             /\ phase' = IF bot = "mongodb_connection" /\ o # "ok" THEN "dead" ELSE "serving"
             /\ co' = IF bot = "mongodb_connection" /\ o = "ok"
                      THEN [co EXCEPT ![0] = Entering] ELSE co
    /\ UNCHANGED <<bot, docs, vindex, qa_history, cmd, question, pc, acked, sent, calls,
                   found, compl, pending, insert_failed, answer>>
    /\ UNCHANGED <<stats_msg, is_fully_ready, health, env, ingest, secrets, dotenv, logged>>

\* the commands of revision b that use the manager
ManagerCommands(b) == IF b = "mongodb_connection" THEN {"ping"} ELSE {"ping", "ask"}

\* the gateway dispatches a command to a new handler task
BeginCmd(t) ==
    /\ t \in Interactions
    /\ phase = "serving"
    /\ co[t].pc = "idle"
    /\ \E c \in ManagerCommands(bot) : cmd' = [cmd EXCEPT ![t] = c]
    /\ co' = [co EXCEPT ![t].pc = "start"]
    /\ UNCHANGED <<bot, docs, vindex, qa_history, question, pc, acked, sent, calls,
                   found, compl, pending, insert_failed, answer>>
    /\ UNCHANGED <<stats_msg, is_fully_ready, store_up, health, phase, env, connected,
                   ingest, secrets, dotenv, logged, manager>>

\* await interaction.response.defer()
DeferCmd(t) ==
    /\ t \in Interactions
    /\ co[t].pc = "start"
    /\ acked' = [acked EXCEPT ![t] = TRUE]
    /\ co' = [co EXCEPT ![t] = IF bot = "mongodb_connection" THEN Entering
                                ELSE [NoTask EXCEPT !.pc = "use"]]
    /\ UNCHANGED <<bot, docs, vindex, qa_history, cmd, question, pc, sent, calls,
                   found, compl, pending, insert_failed, answer>>
    /\ UNCHANGED <<stats_msg, is_fully_ready, store_up, health, phase, env, connected,
                   ingest, secrets, dotenv, logged, manager>>

\* TRUE iff attempt a is the last one of the loop
LastAttempt_four(a) == a >= max_retries

LastAttempt(a) == a >= max_retries - 1

\* retry_delay * (attempt + 1)
RetryDelay(a) == retry_delay * (a + 1)

\* ensure_connection: `if not self.connected`
Reinit(c) == ~c

\* test_connection in mongodb_connection.py, after ensure_connection
\* returned: list_collection_names on self.db and a ping on self.client
TestReply(ok) == IF ok THEN <<Msg("db_ok", FALSE)>> ELSE <<Msg("db_failed", TRUE)>>

\* one pass of the loop of ensure_connection in task t, from the top of the
\* loop body to the next await or to the end of the call; for a handler the
\* rest of test_connection follows a return without an await in between
EnsureAttempt(t) ==
    /\ bot = "mongodb_connection"
    /\ phase = "serving"
    /\ co[t].pc = "ensure"
    /\ \E o \in (IF Reinit(connected) THEN InitOutcomes
                 ELSE IF store_up THEN {"ok"} ELSE {"ping"}) :
       \E r \in {IF Reinit(connected) THEN init_connection(manager, o)
                 ELSE [client |-> manager.client, db |-> manager.db,
                       qa_collection |-> manager.qa_collection,
                       last_init |-> manager.last_init, connected |-> connected]} :
          /\ store_up' = IF o = "info" THEN FALSE ELSE store_up
          /\ IF o = "ok"
             THEN /\ connected' = r.connected
                  /\ manager' = IF Reinit(connected) THEN Installed(r, t) ELSE manager
                  /\ co' = [co EXCEPT ![t] =
                              [@ EXCEPT !.pc = IF t = 0 THEN "pause" ELSE "reply",
                                        !.tries = @ + 1,
                                        !.result = "returned",
                                        !.torn = (t # 0 /\ r.db # "current")]]
                  /\ pending' = IF t = 0 THEN pending
                                ELSE [pending EXCEPT ![t] = TestReply(TRUE)]
             ELSE IF LastAttempt(co[t].attempt)
             THEN /\ connected' = FALSE
                  /\ manager' = [(IF Reinit(connected) THEN Installed(r, t) ELSE manager)
                                   EXCEPT !.attempted = IF connected THEN {} ELSE @,
                                          !.recreated = IF connected THEN {} ELSE @]
                  /\ co' = [co EXCEPT ![t] =
                              [@ EXCEPT !.pc = IF t = 0 THEN "pause" ELSE "reply",
                                        !.tries = @ + 1,
                                        !.result = "raised"]]
                  /\ pending' = IF t = 0 THEN pending
                                ELSE [pending EXCEPT ![t] = TestReply(FALSE)]
             ELSE /\ connected' = r.connected
                  /\ manager' = IF Reinit(connected) THEN Installed(r, t) ELSE manager
                  /\ co' = [co EXCEPT ![t] =
                              [@ EXCEPT !.pc = "sleep",
                                        !.tries = @ + 1,
                                        !.delays = Append(@, RetryDelay(co[t].attempt))]]
                  /\ pending' = pending
    /\ UNCHANGED <<bot, docs, vindex, qa_history, cmd, question, pc, acked, sent, calls,
                   found, compl, insert_failed, answer>>
    /\ UNCHANGED <<stats_msg, is_fully_ready, health, phase, env, ingest, secrets, dotenv, logged>>

\* the sleep between two attempts ends
Wake(t) ==
    /\ co[t].pc = "sleep"
    /\ co' = [co EXCEPT ![t] = [@ EXCEPT !.pc = "ensure", !.attempt = @ + 1]]
    /\ UNCHANGED <<bot, docs, vindex, qa_history, cmd, question, pc, acked, sent, calls,
                   found, compl, pending, insert_failed, answer>>
    /\ UNCHANGED <<stats_msg, is_fully_ready, store_up, health, phase, env, connected,
                   ingest, secrets, dotenv, logged, manager>>

\* monitor_connection: the sleep after a round (30 s after a return, 5 s
\* after an exception) ends and the next round calls ensure_connection
MonitorResume ==
    /\ co[0].pc = "pause"
    /\ co' = [co EXCEPT ![0] = Entering]
    /\ UNCHANGED <<bot, docs, vindex, qa_history, cmd, question, pc, acked, sent, calls,
                   found, compl, pending, insert_failed, answer>>
    /\ UNCHANGED <<stats_msg, is_fully_ready, store_up, health, phase, env, connected,
                   ingest, secrets, dotenv, logged, manager>>

\* adv_dis1.py, discord_bot1.py: the handler's use of the store. ping:
\* test_connection pings self.client. ask: search_similar_chunks reads
\* self.docs_collection, which exists only after a successful
\* init_connection; it catches every exception and returns []
UseStore(t) ==
    /\ t \in Interactions
    /\ co[t].pc = "use"
    /\ pending' = [pending EXCEPT ![t] =
                     IF cmd[t] = "ping" THEN TestReply(store_up)
                     ELSE IF manager.qa_collection = "current" /\ store_up
                     THEN Parts(100, Threshold(bot), Margin(bot))
                     ELSE IF bot = "discord_bot1" THEN <<ErrorMsg>> ELSE <<Canned>>]
    /\ co' = [co EXCEPT ![t] = [@ EXCEPT !.pc = "reply",
                                         !.torn = (cmd[t] = "ask" /\ manager.qa_collection = "stale")]]
    /\ UNCHANGED <<bot, docs, vindex, qa_history, cmd, question, pc, acked, sent, calls,
                   found, compl, insert_failed, answer>>
    /\ UNCHANGED <<stats_msg, is_fully_ready, store_up, health, phase, env, connected,
                   ingest, secrets, dotenv, logged, manager>>

\* await interaction.followup.send(...)
Reply(t) ==
    /\ t \in Interactions
    /\ co[t].pc = "reply"
    /\ sent' = [sent EXCEPT ![t] = pending[t]]
    /\ pending' = [pending EXCEPT ![t] = <<>>]
    /\ co' = [co EXCEPT ![t].pc = "done"]
    /\ UNCHANGED <<bot, docs, vindex, qa_history, cmd, question, pc, acked, calls,
                   found, compl, insert_failed, answer>>
    /\ UNCHANGED <<stats_msg, is_fully_ready, store_up, health, phase, env, connected,
                   ingest, secrets, dotenv, logged, manager>>

\* the handler task has ended; its place is free for the next command
Recycle(t) ==
    /\ t \in Interactions
    /\ co[t].pc = "done"
    /\ co' = [co EXCEPT ![t] = NoTask]
    /\ cmd' = [cmd EXCEPT ![t] = "none"]
    /\ acked' = [acked EXCEPT ![t] = FALSE]
    /\ sent' = [sent EXCEPT ![t] = <<>>]
    /\ UNCHANGED <<bot, docs, vindex, qa_history, question, pc, calls,
                   found, compl, pending, insert_failed, answer>>
    /\ UNCHANGED <<stats_msg, is_fully_ready, store_up, health, phase, env, connected,
                   ingest, secrets, dotenv, logged, manager>>

\* a step of task t that the event loop takes once the task can run
TaskStep(t) == DeferCmd(t) \/ EnsureAttempt(t) \/ Wake(t) \/ UseStore(t) \/ Reply(t)

NextManager ==
    \/ Construct
    \/ StoreFlip
    \/ MonitorResume
    \/ \E t \in Tasks : BeginCmd(t) \/ TaskStep(t) \/ Recycle(t)

\* the event loop runs every task that can run, and every sleep ends
SpecManager ==
    /\ InitManager
    /\ [][NextManager]_vars
    /\ WF_vars(Construct)
    /\ WF_vars(MonitorResume)
    /\ \A t \in Tasks : WF_vars(TaskStep(t))

\* C22: whenever the running bot's manager is not connected, later it is
\* connected again or the store is unreachable at some moment: a store that
\* is reachable and stays reachable is reconnected to.
C22_Recovers == (phase = "serving" /\ ~connected) ~> (connected \/ ~store_up)

\* C23: no task uses a database handle that does not belong to the current
\* client, and during one outage at most one task re-creates the connection
\* (calls init_connection).
C23_NoRace ==
    /\ \A t \in Tasks : ~co[t].torn
    /\ Cardinality(manager.attempted) <= 1

\* the sleeps of a call of ensure_connection that has failed n times and
\* goes on: 2 s, then 4 s
Backoff(n) == [j \in 1..n |-> retry_delay * j]

\* what holds of the call of ensure_connection in task t at every moment
EnsureBounded(t) ==
    /\ co[t].tries <= max_retries
    /\ co[t].pc = "ensure" => co[t].tries < max_retries /\ co[t].delays = Backoff(co[t].tries)
    /\ co[t].pc = "sleep" => co[t].delays = Backoff(co[t].tries)
    /\ co[t].result = "returned" => co[t].delays = Backoff(co[t].tries - 1)
    /\ co[t].result = "raised" => co[t].tries = max_retries /\ co[t].delays = <<2, 4>>

\* C29: a call of ensure_connection makes at most 3 attempts, sleeps 2 s and
\* then 4 s between failed attempts, sets connected to False when it raises
\* after the third failure, and always ends.
C29_EnsureTerminates ==
    /\ [](\A t \in Tasks : EnsureBounded(t))
    /\ [][\A t \in Tasks :
            (co[t].result = "none" /\ co'[t].result = "raised") => ~connected']_vars
    /\ \A t \in Tasks : (co[t].pc = "ensure") ~> (co[t].result # "none")

\* a call that raised after three failed attempts
C29_Witness ==
    \E t \in Tasks : co[t].result = "raised" /\ co[t].tries = 3 /\ ~connected

\* C30: whenever connected is True, the latest init_connection succeeded and
\* the client, database and collection handles are set, the latter two made
\* from the current client; after a failed init_connection connected is False.
C30_ConnectedMeansInitialised ==
    /\ connected =>
          /\ manager.last_init = "ok"
          /\ manager.client = "set"
          /\ manager.db = "current"
          /\ manager.qa_collection = "current"
    /\ manager.last_init = "failed" => ~connected

\* connected again after an outage, through the init_connection of a task
C30_Witness == connected /\ manager.recreated # {} /\ phase = "serving"

----------------------------------------------------------------------------
(* The ping command *)

\* C24: a ping that has finished has pinged the store and sent one reply,
\* which reports the store as connected exactly when the probe returned.
C24_PingReportsProbe ==
    \A i \in Interactions :
        (cmd[i] = "ping" /\ pc[i] = "done") =>
            /\ found[i].log # <<>>
            /\ Len(sent[i]) = 1
            /\ sent[i][1].kind = "db_ok" <=> found[i].log[1].ok

----------------------------------------------------------------------------
(* The event loop during the calls of an ask *)

\* the revisions whose ask always calls the store or the embedding service
LoopBots == Bots \ {"adv_discord_bot1"}

\* the handler of interaction i is inside its synchronous calls: retrieval
\* (pymongo, embed_query) and completion (chat.completions.create) are
\* called without await, so the thread of the event loop is inside the call
InCall(i) == pc[i] = "call"

\* the event loop can run a task only while no task is inside a call
LoopFree == \A i \in Interactions : ~InCall(i)

InitLoop == Init /\ bot \in LoopBots

BeginL(i) == LoopFree /\ Begin(i)

DeferL(i) == LoopFree /\ Defer(i)

SendL(i) == LoopFree /\ Send(i)

\* a handler other than ask
RunL(i) == LoopFree /\ cmd[i] # "ask" /\ Run(i)

\* the ask handler enters its first call
CallStart(i) ==
    /\ LoopFree
    /\ pc[i] = "run"
    /\ cmd[i] = "ask"
    /\ pc' = [pc EXCEPT ![i] = "call"]
    /\ UNCHANGED <<bot, docs, vindex, qa_history, cmd, question, acked, sent, calls, found,
                   compl, pending, insert_failed, answer, aux>>

\* the last call of the ask handler returns or raises, and the handler
\* reaches its next await
CallEnd(i) ==
    /\ InCall(i)
    /\ \E n \in AnswerLens : \E o \in Outcomes(bot, cmd[i], question[i], n) :
           /\ found' = [found EXCEPT ![i] = o.found]
           /\ compl' = [compl EXCEPT ![i] = o.compl]
           /\ answer' = [answer EXCEPT ![i] = IF o.compl = "ok" THEN n ELSE 0]
           /\ calls' = [calls EXCEPT ![i] = @ \o o.calls]
           /\ qa_history' = qa_history \o Records(i, o.hist)
           /\ pending' = [pending EXCEPT ![i] = o.msgs]
           /\ insert_failed' = [insert_failed EXCEPT ![i] = o.insert_failed]
           /\ pc' = [pc EXCEPT ![i] = IF o.msgs = <<>> THEN "done" ELSE "send"]
    /\ UNCHANGED <<bot, docs, vindex, cmd, question, acked, sent, aux>>

NextLoop ==
    \E i \in Interactions :
        BeginL(i) \/ DeferL(i) \/ RunL(i) \/ CallStart(i) \/ CallEnd(i) \/ SendL(i)

SpecLoop == InitLoop /\ [][NextLoop]_vars

\* C25: while one ask is inside its retrieval or completion call, a command
\* that has arrived and awaits its acknowledgment can be acknowledged.
C25_AckDuringCall ==
    \A i, j \in Interactions :
        (InCall(i) /\ pc[j] = "start" /\ DefersFirst(bot, cmd[j])) => ENABLED DeferL(j)

----------------------------------------------------------------------------
(* Regex patterns built from the query *)

\* the terms revision b formats into $regex patterns in the store call of
\* tier `tier` for the query q
RegexTerms(b, q, tier) ==
    CASE b \in {"adv_dis", "adv_dis1"} /\ tier = "text" -> {q}
      [] b = "adv_dis" /\ tier = "text2" -> {<<q[j]>> : j \in 1..Len(q)}
      [] b \in {"advanced_discord_bot", "adv_discord_bot"} /\ tier = "text" -> SearchTerms(q)
      [] b = "discord_bot" /\ tier = "fallback" -> SearchTerms(q)
      [] b = "discord_bot1" /\ tier = "text" -> SearchTerms1(q)
      [] OTHER -> {}

\* TRUE iff revision b passes each term through re.escape
Escapes(b) == b = "discord_bot1"

\* the patterns the retrieval of interaction i sent to the store
PatternsSent(i) ==
    UNION {{[term |-> t, escaped |-> Escapes(bot)] :
               t \in RegexTerms(bot, question[i], found[i].log[p].tier)} :
           p \in 1..Len(found[i].log)}

\* C26: every pattern sent to the store whose term holds a regex
\* metacharacter of the query was built from the escaped term.
C26_TermsEscaped ==
    \A i \in Interactions :
        Retrieved(i) =>
            \A pat \in PatternsSent(i) :
                (\E j \in 1..Len(pat.term) : HasMeta(Lower(pat.term[j]))) => pat.escaped

----------------------------------------------------------------------------
(* Stop words in discord_bot1.py *)

\* queries made of stop words only
StopQueries == {<<"What", "is">>, <<"is">>}

Queries1 == Questions \cup StopQueries

\* core_query = ' '.join(core_terms), the argument of embed_query; the
\* empty sequence is the empty string
CoreQuery(q) == SelectSeq(LowerAll(q), LAMBDA w : w \notin stop_words)

InitTerms ==
    /\ bot = "discord_bot1"
    /\ docs \in Stores
    /\ vindex \in BOOLEAN
    /\ qa_history = <<>>
    /\ Quiet
    /\ Serving

\* search_similar_chunks(question) for a query of Queries1
Retrieve1(i) ==
    /\ pc[i] = "idle"
    /\ \E q \in Queries1 : \E f \in FaultSets :
          /\ question' = [question EXCEPT ![i] = q]
          /\ found' = [found EXCEPT ![i] = Search_discord_bot1(q, f)]
    /\ cmd' = [cmd EXCEPT ![i] = "ask"]
    /\ pc' = [pc EXCEPT ![i] = "done"]
    /\ UNCHANGED <<bot, docs, vindex, qa_history, acked, sent, calls, compl, pending,
                   insert_failed, answer, aux>>

NextTerms == \E i \in Interactions : Retrieve1(i)

SpecTerms == InitTerms /\ [][NextTerms]_vars

\* C27: for a query of stop words only, the text tier searches with the
\* (lower-cased) query itself and the vector tier, when it runs, embeds the
\* query and not the empty string.
C27_StopWordsFallBack ==
    \A i \in Interactions :
        (pc[i] = "done" /\ \A j \in 1..Len(question[i]) : Lower(question[i][j]) \in stop_words)
        => /\ SearchTerms1(question[i]) = {LowerAll(question[i])}
           /\ (\E p \in 1..Len(found[i].log) : found[i].log[p].tier = "embed")
                 => CoreQuery(question[i]) = LowerAll(question[i])

----------------------------------------------------------------------------
(* Ingestion *)

\* the programs that ingest: pdf_loader.py load_pdf_to_mongodb, and
\* ragapp.py store_embeddings
IngestBots == {"pdf_loader", "ragapp"}

\* the chunks of the document being ingested, each with its embedding
NewChunks == <<ChunkDoc, [ChunkShort EXCEPT !.id = 10], [ChunkLong EXCEPT !.id = 11]>>

InitIngest ==
    /\ bot \in IngestBots
    /\ docs \in Stores
    /\ vindex \in BOOLEAN
    /\ qa_history = <<>>
    /\ Quiet
    /\ stats_msg = NoStats
    /\ is_fully_ready = TRUE
    /\ store_up = TRUE
    /\ health = NoHealth
    /\ phase = "serving"
    /\ env = Required
    /\ connected = TRUE
    /\ ingest = [pc |-> "idle", embedded |-> 0, previous |-> docs]
    /\ secrets = [v \in Required |-> "s1"]
    /\ dotenv = NoFile
    /\ logged = <<>>
    /\ manager = ManagerUp
    /\ co = [t \in Tasks |-> NoTask]

\* collection.delete_many({}): the first store call of the run. A call that
\* raises ends the run with the collection as it was.
DeleteMany ==
    /\ ingest.pc = "idle"
    /\ \E ok \in BOOLEAN :
          /\ docs' = IF ok THEN <<>> ELSE docs
          /\ ingest' = [ingest EXCEPT !.pc = IF ok THEN "embedding" ELSE "failed"]
    /\ UNCHANGED <<bot, vindex, qa_history, cmd, question, pc, acked, sent, calls, found,
                   compl, pending, insert_failed, answer>>
    /\ UNCHANGED <<stats_msg, is_fully_ready, store_up, health, phase, env, connected,
                   secrets, dotenv, logged, manager, co>>

\* one pass of the loop: embeddings_model.embed_query(chunk) returns, or
\* raises and ends the run
EmbedChunk ==
    /\ ingest.pc = "embedding"
    /\ ingest.embedded < Len(NewChunks)
    /\ \E ok \in BOOLEAN :
          ingest' = IF ok THEN [ingest EXCEPT !.embedded = @ + 1]
                    ELSE [ingest EXCEPT !.pc = "failed"]
    /\ UNCHANGED <<bot, docs, vindex, qa_history, cmd, question, pc, acked, sent, calls,
                   found, compl, pending, insert_failed, answer>>
    /\ UNCHANGED <<stats_msg, is_fully_ready, store_up, health, phase, env, connected,
                   secrets, dotenv, logged, manager, co>>

\* collection.insert_many(documents): an ordered bulk insert outside any
\* transaction; when it raises, the documents before the failing one stay
InsertMany ==
    /\ ingest.pc = "embedding"
    /\ ingest.embedded = Len(NewChunks)
    /\ \E n \in 0..Len(NewChunks) :
          /\ docs' = SubSeq(NewChunks, 1, n)
          /\ ingest' = [ingest EXCEPT !.pc = IF n = Len(NewChunks) THEN "done" ELSE "failed"]
    /\ UNCHANGED <<bot, vindex, qa_history, cmd, question, pc, acked, sent, calls, found,
                   compl, pending, insert_failed, answer>>
    /\ UNCHANGED <<stats_msg, is_fully_ready, store_up, health, phase, env, connected,
                   secrets, dotenv, logged, manager, co>>

NextIngest == DeleteMany \/ EmbedChunk \/ InsertMany

SpecIngest == InitIngest /\ [][NextIngest]_vars

\* C28: during and after an ingestion run the collection holds the complete
\* previous chunk set or the complete new one.
C28_WholeReplacement == docs = ingest.previous \/ docs = NewChunks

====
